---- MODULE Spec2Model ----
(***************************************************************************)
(* A model of the Brio network simulator: layers (src/blocks/layer.py),    *)
(* connections (src/blocks/connection.py) and the network driver           *)
(* (brio/blocks/network.py, brio/blocks/aux.py).                           *)
(*                                                                         *)
(* Numbers: numpy floats are modelled exactly, as sums of rational         *)
(* multiples of powers of sqrt(pi)/2 and of values of exp (see Numbers     *)
(* below).  Arrays of one dimension are sequences,                         *)
(* weight matrices are sequences of rows: weights[j][i] is the weight from *)
(* presynaptic unit j to postsynaptic unit i.  numpy arrays are objects:   *)
(* a layer's state and the entries of its history are references into      *)
(* heap, so that in-place writes and aliasing behave as in Python.         *)
(***************************************************************************)
EXTENDS Integers, Sequences, FiniteSets, TLC

VARIABLES
    layers,     \* layer id -> Layer object
    heap,       \* array reference -> contents of a state array
    conns,      \* connection id -> Connection object (constructed ones)
    net,        \* the Network object
    pc,         \* position of the running Network.train call
    last,       \* the last operation called and its outcome
    counts,     \* how many calls of each bounded operation were made
    seterr      \* numpy's floating-point error mode in this process

vars == <<layers, heap, conns, net, pc, last, counts, seterr>>

-----------------------------------------------------------------------------
(* Bounds of the model *)

MaxCalls == 3          \* weight_update() calls per connection
MaxBatch == 2          \* largest params.update_batch_size tried
MaxInserts == 3        \* update_history() calls after a prefilled history
MaxEpochs == 2         \* batches presented and direct calls made on a network
MaxConns == 2          \* connections constructed before the Network

(* Program constants *)

max_history_length == 500
stimuli_per_epoch == 100

-----------------------------------------------------------------------------
(* Rationals <<numerator, denominator>> in lowest terms, denominator > 0 *)

Abs(x) == IF x < 0 THEN -x ELSE x

RECURSIVE GCD(_, _)
GCD(a, b) == IF b = 0 THEN a ELSE GCD(b, a % b)

LCM(a, b) == (a \div GCD(a, b)) * b

QZero == <<0, 1>>

QOver(n, d, g) == <<n \div g, d \div g>>
QNorm(n, d) == QOver(n, d, GCD(Abs(n), d))

QAddOver(x, y, d) == QNorm(x[1] * (d \div x[2]) + y[1] * (d \div y[2]), d)
QAdd(x, y) == QAddOver(x, y, LCM(x[2], y[2]))
QMul(x, y) == QNorm(x[1] * y[1], x[2] * y[2])

(* Numbers.  Every float the program computes is built from integers,      *)
(* sqrt(pi) and exp by +, -, * and division by an integer.  A number is    *)
(* kept exactly, as a function from keys <<i, q>> to nonzero rational      *)
(* coefficients: it stands for the sum over its keys of                    *)
(*      coefficient * (sqrt(pi)/2)^i * exp(-q)                              *)
(* with i a natural and q a nonnegative rational.  Zero is the function    *)
(* with the empty domain; a rational r is the number with the one key      *)
(* <<0, <<0, 1>>>>.                                                          *)

RatKey == <<0, QZero>>

Term(c, i, q) == [key \in (IF c[1] = 0 THEN {} ELSE {<<i, q>>}) |-> c]

RNorm(n, d) == Term(QNorm(n, d), 0, QZero)
R(n) == RNorm(n, 1)

Coef(x, key) == IF key \in DOMAIN x THEN x[key] ELSE QZero

\* f without the keys whose coefficient is zero
Prune(f) == [key \in {k \in DOMAIN f : f[k][1] # 0} |-> f[key]]

RAdd(x, y) ==
    Prune([key \in DOMAIN x \cup DOMAIN y |-> QAdd(Coef(x, key), Coef(y, key))])

RScale(q, x) == Prune([key \in DOMAIN x |-> QMul(q, x[key])])

RSub(x, y) == RAdd(x, RScale(<<-1, 1>>, y))

\* the product of the term of x at key a and the term of y at key b
ProductTerm(x, y, a, b) ==
    Term(QMul(x[a], y[b]), a[1] + b[1], QAdd(a[2], b[2]))

\* the sum of the products of the terms of x and y named by pairs
RECURSIVE AddProducts(_, _, _)
AddProductsFrom(x, y, pairs, p) ==
    RAdd(ProductTerm(x, y, p[1], p[2]), AddProducts(x, y, pairs \ {p}))
AddProducts(x, y, pairs) ==
    IF pairs = {} THEN Term(QZero, 0, QZero)
    ELSE AddProductsFrom(x, y, pairs, CHOOSE p \in pairs : TRUE)

RMul(x, y) == AddProducts(x, y, (DOMAIN x) \X (DOMAIN y))

RDivInt(x, k) == RScale(<<1, k>>, x)

RECURSIVE RSum(_)
RSum(s) == IF s = <<>> THEN R(0) ELSE RAdd(s[1], RSum(Tail(s)))

(* The sign of a number.  A rational has the sign of its numerator.  For   *)
(* any other number every key is enclosed between two multiples of 1/4096  *)
(* (rounded down and up after every product), from                         *)
(*      3629/4096 < sqrt(pi)/2 < 3630/4096      and, for q > 0,            *)
(*      0 < exp(-q) < 1 / (1 + q);                                         *)
(* the number is positive when the sum of its terms is positive at the     *)
(* low ends, and negative when it is negative at the high ends.  A number  *)
(* the enclosure does not settle has no sign here: asking for it is an     *)
(* error, never a guess.                                                   *)

RECURSIVE PowerLow(_)
PowerLow(i) == IF i = 0 THEN 4096 ELSE (PowerLow(i - 1) * 3629) \div 4096
RECURSIVE PowerHigh(_)
PowerHigh(i) == IF i = 0 THEN 4096 ELSE (PowerHigh(i - 1) * 3630 + 4095) \div 4096

ExpLow(q) == IF q[1] = 0 THEN 4096 ELSE 0
ExpHigh(q) == IF q[1] = 0 THEN 4096 ELSE (4096 * q[2] + q[1] + q[2] - 1) \div (q[1] + q[2])

KeyLow(key) == (PowerLow(key[1]) * ExpLow(key[2])) \div 4096
KeyHigh(key) == (PowerHigh(key[1]) * ExpHigh(key[2]) + 4095) \div 4096

\* a common denominator of the coefficients of x at the keys todo
RECURSIVE Denominator(_, _)
DenominatorFrom(x, todo, key) == LCM(x[key][2], Denominator(x, todo \ {key}))
Denominator(x, todo) ==
    IF todo = {} THEN 1 ELSE DenominatorFrom(x, todo, CHOOSE key \in todo : TRUE)

\* n times its key, at the low (low = TRUE) or the high end
Bound(key, n, low) == n * (IF (n > 0) # low THEN KeyHigh(key) ELSE KeyLow(key))

\* 4096 * d * x at the low or the high ends of its keys
RECURSIVE Enclose(_, _, _, _)
EncloseFrom(x, todo, d, low, key) ==
    Bound(key, x[key][1] * (d \div x[key][2]), low) + Enclose(x, todo \ {key}, d, low)
Enclose(x, todo, d, low) ==
    IF todo = {} THEN 0
    ELSE EncloseFrom(x, todo, d, low, CHOOSE key \in todo : TRUE)

SignOver(x, d) ==
    IF Enclose(x, DOMAIN x, d, TRUE) > 0 THEN 1
    ELSE IF Enclose(x, DOMAIN x, d, FALSE) < 0 THEN -1
    ELSE CHOOSE sign \in {} : TRUE

RSign(x) ==
    IF DOMAIN x = {} THEN 0
    ELSE IF DOMAIN x = {RatKey} THEN (IF x[RatKey][1] > 0 THEN 1 ELSE -1)
    ELSE SignOver(x, Denominator(x, DOMAIN x))

RNeg(x) == RSign(x) = -1
RPos(x) == RSign(x) = 1

(* Matrices *)

Rows(m) == Len(m)
Cols(m) == IF m = <<>> THEN 0 ELSE Len(m[1])
MatMap2(Op(_, _), a, b) ==
    [j \in 1..Rows(a) |-> [i \in 1..Cols(a) |-> Op(a[j][i], b[j][i])]]
MatAddScalar(a, s) ==
    [j \in 1..Rows(a) |-> [i \in 1..Cols(a) |-> RAdd(a[j][i], s)]]
MatScale(a, s) ==
    [j \in 1..Rows(a) |-> [i \in 1..Cols(a) |-> RMul(a[j][i], s)]]
MatEntries(a) ==
    [k \in 1..(Rows(a) * Cols(a)) |->
        a[((k - 1) \div Cols(a)) + 1][((k - 1) % Cols(a)) + 1]]
MatSum(a) == RSum(MatEntries(a))

Vec(n, v) == [i \in 1..n |-> v]
SeqRange(s) == {s[i] : i \in 1..Len(s)}

-----------------------------------------------------------------------------
(* Layers: src/blocks/layer.py *)

None == [some |-> FALSE]
Some(v) == [some |-> TRUE, val |-> v]

LayerType(kind) ==
    CASE kind = "unconstrained" ->
           [firing_rate_multiplier |-> 1, weight_multiplier |-> 1,
            constrain_weights |-> FALSE]
      [] kind = "excitatory" ->
           [firing_rate_multiplier |-> 1, weight_multiplier |-> 1,
            constrain_weights |-> TRUE]
      [] kind = "inhibitory" ->
           [firing_rate_multiplier |-> 2, weight_multiplier |-> -1,
            constrain_weights |-> TRUE]

LayerKinds == {"unconstrained", "excitatory", "inhibitory"}

\* Layer.__init__: state is a fresh array of ones, stored at heap[ref]
NewLayer(cls, n, kind, biasvec, ref) ==
    [cls |-> cls, n_dims |-> n, state |-> ref, bias |-> biasvec,
     inputs |-> <<>>, outputs |-> <<>>, history |-> <<>>,
     ltype |-> kind, avg_weighting |-> None]

\* array objects referenced by some layer, the smallest unused reference,
\* and the heap without the arrays nothing refers to any more
UsedRefs(ls) ==
    UNION {{ls[l].state} \cup SeqRange(ls[l].history) : l \in DOMAIN ls}
FreshRef(ls) ==
    CHOOSE r \in 1..(Cardinality(UsedRefs(ls)) + 1) :
        /\ r \notin UsedRefs(ls)
        /\ \A q \in 1..(r - 1) : q \in UsedRefs(ls)
Collect(h, ls) == [r \in UsedRefs(ls) |-> h[r]]

StateOf(ls, h, l) == h[ls[l].state]

\* Layer.add_input / Layer.add_output
AddInput(ly, c) == [ly EXCEPT !.inputs = Append(@, c)]
AddOutput(ly, c) == [ly EXCEPT !.outputs = Append(@, c)]

\* Connection.feedforward_energy(idx)
FeedforwardEnergy(cn, pre_state, idx) ==
    RSum([j \in 1..Len(pre_state) |->
            RMul(R(cn.weight_multiplier * pre_state[j]), cn.weights[j][idx])])

\* Connection.energy_shadow(input_idx)
EnergyShadow(cn, post_state, input_idx) ==
    RSum([i \in 1..Len(post_state) |->
            RMul(R(cn.weight_multiplier * post_state[i]), cn.weights[input_idx][i])])

\* Layer.input_energy(idx)
InputEnergy(ls, h, cs, l, idx) ==
    RSum([k \in 1..Len(ls[l].inputs) |->
            FeedforwardEnergy(cs[ls[l].inputs[k]],
                              StateOf(ls, h, cs[ls[l].inputs[k]].presynaptic_layer),
                              idx)])

\* PerceptronLayer.activation(energy)
PerceptronActivationGE(energy) == IF ~RNeg(energy) THEN 1 ELSE -1
PerceptronActivation(energy) == IF RPos(energy) THEN 1 ELSE -1

\* the energy PerceptronLayer.update(idx) hands to the activation
PerceptronEnergy(ls, h, cs, l, idx) ==
    RAdd(R(ls[l].bias[idx]), InputEnergy(ls, h, cs, l, idx))

\* PerceptronLayer.update(idx): writes state[idx] in place
PerceptronUpdate(ls, h, cs, l, idx) ==
    [h EXCEPT ![ls[l].state][idx] =
        PerceptronActivation(PerceptronEnergy(ls, h, cs, l, idx))]

\* the sum the loop of Layer.output_energy(idx) accumulates in energy
OutputEnergySum(ls, h, cs, l, idx) ==
    RSum([k \in 1..Len(ls[l].outputs) |->
            EnergyShadow(cs[ls[l].outputs[k]],
                         StateOf(ls, h, cs[ls[l].outputs[k]].postsynaptic_layer),
                         idx)])

\* Layer.output_energy(idx): the method ends after the loop without a
\* return statement, so the call evaluates to None whatever the sum is
OutputEnergy(ls, h, cs, l, idx) ==
    LET energy == OutputEnergySum(ls, h, cs, l, idx)
    IN  None

\* BoltzmannMachineLayer.activation(energy): +1 when the draw of
\* np.random.random() is below 1 / (1 + exp(-energy)), which lies strictly
\* between 0 and 1, so either outcome can occur; fires tells which
BoltzmannActivation(energy, fires) == IF fires THEN 1 ELSE -1

\* BoltzmannMachineLayer.update(idx): e_diff = bias[idx], then
\* e_diff += input_energy(idx), then e_diff += output_energy(idx), which
\* adds None to a float (TypeError) before state[idx] is assigned
BoltzmannUpdate(ls, h, cs, l, idx, fires) ==
    LET e_in == RAdd(R(ls[l].bias[idx]), InputEnergy(ls, h, cs, l, idx))
        out == OutputEnergy(ls, h, cs, l, idx)
    IN  IF out = None
          THEN [heap |-> h, err |-> "TypeError"]
          ELSE [heap |-> [h EXCEPT ![ls[l].state][idx] =
                            BoltzmannActivation(RAdd(e_in, out.val), fires)],
                err |-> ""]

\* Layer.update_history(): the state array itself is inserted at the front
TruncateLate(hist) ==
    IF Len(hist) > 2 * max_history_length + 1
    THEN SubSeq(hist, 1, max_history_length)
    ELSE hist
Truncate(hist) ==
    IF Len(hist) > 2 * max_history_length
    THEN SubSeq(hist, 1, max_history_length)
    ELSE hist
UpdateHistory(ly) ==
    [ly EXCEPT !.history = Truncate(<<ly.state>> \o @)]

\* Layer.set_parentage(network): avg_weighting is the kernel of length
\* 2 * max_history_length built from time_constant = 1 / presentations;
\* the layer keeps the presentations it was built from
SetParentage(ly, presentations) ==
    [ly EXCEPT !.avg_weighting = Some(presentations)]

\* np.exp(-time_constant * np.arange(2 * max_history_length)): the smallest
\* entry, exp(-(2 * max_history_length - 1) / presentations), is below the
\* smallest normal float64 when the exponent is below -708.39, which for
\* whole presentations means (2 * max_history_length - 1) > 708 * presentations
ExpUnderflows(presentations) ==
    2 * max_history_length - 1 > 708 * presentations

\* the exception set_parentage ends in ("" for none): connection.py calls
\* np.seterr('raise') when it is imported, and from then on the underflow
\* raises FloatingPointError before avg_weighting is assigned; under
\* numpy's default mode the underflow is ignored
SetParentageError(presentations, mode) ==
    IF mode = "raise" /\ ExpUnderflows(presentations)
    THEN "FloatingPointError" ELSE ""

\* avg_weighting[k] = sqrt(pi) / (2 tc) * exp(-tc k), tc = 1 / presentations,
\* k counted from 0: presentations * (sqrt(pi)/2) * exp(-k / presentations).
Kernel(presentations, k) ==
    Term(<<presentations, 1>>, 1, QNorm(k, presentations))

\* Layer.firing_rates(): np.sum(history * avg_weighting[:len(history)], axis=0).
\* history is a list of L arrays of shape (n,), the kernel slice has shape
\* (L,); numpy broadcasts the two and the sum runs over the first axis.
\*   L = 0       : the product is an empty array of shape (0,), the sum the
\*                 scalar 0.0
\*   L = n       : entry i is kernel[i] * sum_k history[k][i]
\*   L = 1       : entry i is kernel[0] * history[0][i]
\*   n = 1       : shape (L,): entry j is kernel[j] * sum_k history[k][0]
\*   otherwise   : the shapes do not broadcast (ValueError)
FiringRates(ly, h) ==
    LET L == Len(ly.history)
        n == ly.n_dims
        P == ly.avg_weighting.val
        col(i) == RSum([k \in 1..L |-> R(h[ly.history[k]][i])])
    IN  IF ~ly.avg_weighting.some
          THEN [kind |-> "error", err |-> "AttributeError"]
        ELSE IF L = 0
          THEN [kind |-> "scalar", val |-> R(0)]
        ELSE IF L = n
          THEN [kind |-> "vector",
                val |-> [i \in 1..n |-> RMul(Kernel(P, i - 1), col(i))]]
        ELSE IF L = 1
          THEN [kind |-> "vector",
                val |-> [i \in 1..n |-> RMul(Kernel(P, 0), col(i))]]
        ELSE IF n = 1
          THEN [kind |-> "vector",
                val |-> [j \in 1..L |-> RMul(Kernel(P, j - 1), col(1))]]
        ELSE [kind |-> "error", err |-> "ValueError"]

\* a stimulus handed to InputLayer.set_state: an array of shape (n,) or a
\* rolled batch of shape (n, cols) whose columns all equal vec
Stimulus(v) == [dims |-> 1, vec |-> v]
Rolled(v, cols) == [dims |-> 2, vec |-> v, cols |-> cols]

\* InputLayer.set_state(state): assert state.shape == self.state.shape
SetStateAccepts(ly, stim) == stim.dims = 1 /\ Len(stim.vec) = ly.n_dims

-----------------------------------------------------------------------------
(* Connections: src/blocks/connection.py *)

ConnTypes == {"OjaConnection", "FoldiakConnection", "CMConnection",
              "ConstantConnection"}
Trainable == ConnTypes \ {"ConstantConnection"}

\* Connection.__impose_constraint: negative weights are set to 0
ImposeConstraint(w) ==
    [j \in 1..Rows(w) |-> [i \in 1..Cols(w) |->
        IF RNeg(w[j][i]) THEN R(0) ELSE w[j][i]]]

\* np.random.randn(n_pre, n_post) * 0.01, for the draws given as integers
RandomWeights(draws) ==
    [j \in 1..Rows(draws) |-> [i \in 1..Cols(draws) |-> RNorm(draws[j][i], 100)]]

\* np.diag(np.ones(n))
OnesMatrix(n) == [j \in 1..n |-> [i \in 1..n |-> R(1)]]
Identity(n) == [j \in 1..n |-> [i \in 1..n |-> IF i = j THEN R(1) ELSE R(0)]]

\* Connection.__init__, then ConstantConnection.__init__ after the call of
\* super: the assert on the dimensions and the identity weights.  err names
\* the exception the constructor ends in ("" for none); the object is
\* registered with both layers before the assert is reached.
NewConnection(ctype, pre, post, lr, draws, ls) ==
    LET base == [ctype |-> ctype,
                 presynaptic_layer |-> pre,
                 postsynaptic_layer |-> post,
                 weights |-> ImposeConstraint(RandomWeights(draws)),
                 weight_updates |-> <<>>,
                 weight_multiplier |-> LayerType(ls[pre].ltype).weight_multiplier,
                 learning_rate |-> lr,
                 params |-> None]
    IN  IF ctype # "ConstantConnection"
          THEN [conn |-> base, err |-> ""]
        ELSE IF ls[pre].n_dims # ls[post].n_dims
          THEN [conn |-> base, err |-> "AssertionError"]
        ELSE [conn |-> [base EXCEPT !.weights = Identity(ls[pre].n_dims)],
              err |-> ""]

\* the layers after Connection.__init__ registered connection c
Register(ls, c, pre, post) ==
    LET a == [ls EXCEPT ![post] = AddInput(@, c)]
    IN  [a EXCEPT ![pre] = AddOutput(@, c)]

\* np.outer(a, b) for integer vectors
Outer(a, b) == [j \in 1..Len(a) |-> [i \in 1..Len(b) |-> R(a[j] * b[i])]]
ROuter(a, b) == [j \in 1..Len(a) |-> [i \in 1..Len(b) |-> RMul(a[j], b[i])]]

\* OjaConnection.accumulate_weight_update: the delta appended
OjaDeltaHebb(cn, pre_s, post_s) ==
    MatScale(Outer(pre_s, post_s), cn.learning_rate.val)
OjaDelta(cn, pre_s, post_s) ==
    MatScale([j \in 1..Len(pre_s) |-> [i \in 1..Len(post_s) |->
                 RSub(R(pre_s[j] * post_s[i]),
                      RMul(R(post_s[i] * post_s[i]), cn.weights[j][i]))]],
             cn.learning_rate.val)

\* FoldiakConnection.accumulate_weight_update: the delta appended
FoldiakDelta(cn, pre_s, post_s, pre_r, post_r) ==
    MatScale(MatMap2(RSub, Outer(pre_s, post_s), ROuter(pre_r, post_r)),
             cn.learning_rate.val)

\* CMConnection.accumulate_weight_update: the delta appended
CMDelta(cn, pre_s, post_s, pre_r, post_r) ==
    MatScale([j \in 1..Len(pre_s) |-> [i \in 1..Len(post_s) |->
                 RSub(R(pre_s[j] * post_s[i]),
                      RMul(RMul(pre_r[j], post_r[i]),
                           RAdd(R(1), cn.weights[j][i])))]],
             cn.learning_rate.val)

\* accumulate_weight_update() of each connection class: the pending list
\* after the call, or the exception it ends in.  history[0] of an empty
\* history is an IndexError, a learning rate of None cannot scale the
\* delta (TypeError).  The rate-based rules are modelled between layers of
\* two or more units, where firing_rates() is a vector of n_dims entries
\* or an error.
Accumulate(cn, ls, h) ==
    LET pre == ls[cn.presynaptic_layer]
        post == ls[cn.postsynaptic_layer]
        pre_s == h[pre.history[1]]
        post_s == h[post.history[1]]
        pre_r == FiringRates(pre, h)
        post_r == FiringRates(post, h)
        ok(d) == [err |-> "", updates |-> Append(cn.weight_updates, d)]
        fail(e) == [err |-> e, updates |-> cn.weight_updates]
    IN  IF cn.ctype = "ConstantConnection" THEN fail("")
        ELSE IF pre.history = <<>> \/ post.history = <<>> THEN fail("IndexError")
        ELSE IF cn.ctype = "OjaConnection"
          THEN IF cn.learning_rate.some THEN ok(OjaDelta(cn, pre_s, post_s))
               ELSE fail("TypeError")
        ELSE IF pre_r.kind = "error" THEN fail(pre_r.err)
        ELSE IF post_r.kind = "error" THEN fail(post_r.err)
        ELSE IF ~cn.learning_rate.some THEN fail("TypeError")
        ELSE IF cn.ctype = "FoldiakConnection"
          THEN ok(FoldiakDelta(cn, pre_s, post_s, pre_r.val, post_r.val))
        ELSE ok(CMDelta(cn, pre_s, post_s, pre_r.val, post_r.val))

\* np.mean(self.weight_updates): no axis is given, so the mean runs over
\* every entry of every pending delta and is one scalar
MeanOfUpdates(updates) ==
    RDivInt(RSum([k \in 1..Len(updates) |-> MatSum(updates[k])]),
            Len(updates) * Rows(updates[1]) * Cols(updates[1]))

\* the condition under which weight_update() applies the pending batch
BatchReadyLate(n_pending, batch_size) == n_pending > batch_size
BatchReady(n_pending, batch_size) == n_pending >= batch_size

\* the constraint step that follows an applied batch
ConstrainNever(w, kind) == w
Constrain(w, kind) ==
    IF LayerType(kind).constrain_weights THEN ImposeConstraint(w) ELSE w

\* the weights after a batch is applied
ApplyBatchElementwise(w, updates) ==
    [j \in 1..Rows(w) |-> [i \in 1..Cols(w) |->
        RAdd(w[j][i],
             RDivInt(RSum([k \in 1..Len(updates) |-> updates[k][j][i]]),
                     Len(updates)))]]
ApplyBatch(w, updates) == MatAddScalar(w, MeanOfUpdates(updates))

\* Connection.weight_update(): the connection after the call, the exception
\* it ends in and whether a batch was applied.  The pending delta is stored
\* before self.params is read; the mean of an empty list divides 0.0 by 0,
\* which np.seterr('raise') turns into a FloatingPointError before the
\* weights are assigned.
WeightUpdate(cn, ls, h) ==
    LET acc == Accumulate(cn, ls, h)
        c1 == [cn EXCEPT !.weight_updates = acc.updates]
        kind == ls[cn.presynaptic_layer].ltype
    IN  IF acc.err # ""
          THEN [conn |-> cn, err |-> acc.err, applied |-> FALSE]
        ELSE IF ~cn.params.some
          THEN [conn |-> c1, err |-> "AttributeError", applied |-> FALSE]
        ELSE IF ~BatchReady(Len(c1.weight_updates), cn.params.val.update_batch_size)
          THEN [conn |-> c1, err |-> "", applied |-> FALSE]
        ELSE IF c1.weight_updates = <<>>
          THEN [conn |-> c1, err |-> "FloatingPointError", applied |-> FALSE]
        ELSE [conn |-> [c1 EXCEPT
                          !.weights = Constrain(ApplyBatch(@, c1.weight_updates), kind),
                          !.weight_updates = <<>>],
              err |-> "", applied |-> TRUE]

-----------------------------------------------------------------------------
(* Network parameters: brio/blocks/aux.py *)

\* NetworkParams.__init__
NetworkParams(presentations, async) ==
    [presentations |-> presentations,
     stimuli_per_epoch |-> stimuli_per_epoch,
     update_batch_size |-> presentations * stimuli_per_epoch,
     baseline_lrate |-> RNorm(1, 10),
     async |-> async,
     display |-> FALSE,
     print_progress |-> TRUE]

\* a parameter object whose update_batch_size attribute was assigned by
\* the caller after construction
WithBatchSize(params, b) == [params EXCEPT !.update_batch_size = b]

\* a parameter object to which the caller added the attribute
\* weight_learning_rate, which NetworkParams.__init__ does not set
WithWeightLearningRate(params, v) ==
    [k \in DOMAIN params \cup {"weight_learning_rate"} |->
        IF k = "weight_learning_rate" THEN v ELSE params[k]]

\* Connection.unpack_network_params(network):
\*   self.learning_rate = self.learning_rate or network.params.weight_learning_rate
\*   self.params = network.params
\* A learning rate of None or 0 is falsy, and the right operand is then
\* read from the parameter object.
UnpackNetworkParams(cn, params) ==
    IF cn.learning_rate.some /\ cn.learning_rate.val # R(0)
      THEN [conn |-> [cn EXCEPT !.params = Some(params)], err |-> ""]
    ELSE IF "weight_learning_rate" \in DOMAIN params
      THEN [conn |-> [cn EXCEPT !.learning_rate = Some(params.weight_learning_rate),
                                !.params = Some(params)],
            err |-> ""]
    ELSE [conn |-> cn, err |-> "AttributeError"]

-----------------------------------------------------------------------------------------------------------------------------------------------------
(* Operations of layers and connections as actions on layers, heap, conns  *)
(* and last.  The specifications below add the caller: its position, its   *)
(* guards and the inputs it draws.                                         *)

NoNet == [constructed |-> FALSE]

\* numpy's error mode: "default" until connection.py is imported, whose
\* first statement after the imports is np.seterr('raise')
ErrModes == {"default", "raise"}

\* Connection(...) / OjaConnection(...) / ... : construct connection c
ConstructConnection(c, ctype, pre, post, lr, draws) ==
    LET r == NewConnection(ctype, pre, post, lr, draws, layers)
    IN  /\ c \notin DOMAIN conns
        /\ Rows(draws) = layers[pre].n_dims
        /\ Cols(draws) = layers[post].n_dims
        /\ conns' = [k \in DOMAIN conns \cup {c} |->
                        IF k = c THEN r.conn ELSE conns[k]]
        /\ layers' = Register(layers, c, pre, post)
        /\ last' = [op |-> "Connection", conn |-> c, err |-> r.err]
        /\ UNCHANGED heap

\* connection.unpack_network_params(network) for a parameter object
BindConnection(c, params) ==
    LET r == UnpackNetworkParams(conns[c], params)
    IN  /\ c \in DOMAIN conns
        /\ conns' = [conns EXCEPT ![c] = r.conn]
        /\ last' = [op |-> "unpack_network_params", conn |-> c, err |-> r.err,
                    before |-> conns[c], params |-> params]
        /\ UNCHANGED <<layers, heap>>

\* input_layer.set_state(stim): the state becomes a fresh copy of stim
SetState(ls, h, l, stim) ==
    LET ref == FreshRef(ls)
        ls2 == [ls EXCEPT ![l].state = ref]
    IN  [layers |-> ls2,
         heap |-> Collect([r \in DOMAIN h \cup {ref} |->
                             IF r = ref THEN stim.vec ELSE h[r]], ls2)]

CallSetState(l, stim) ==
    /\ layers[l].cls = "InputLayer"
    /\ IF SetStateAccepts(layers[l], stim)
         THEN /\ layers' = SetState(layers, heap, l, stim).layers
              /\ heap' = SetState(layers, heap, l, stim).heap
              /\ last' = [op |-> "set_state", layer |-> l, err |-> ""]
         ELSE /\ last' = [op |-> "set_state", layer |-> l, err |-> "AssertionError"]
              /\ UNCHANGED <<layers, heap>>
    /\ UNCHANGED conns

\* layer.update(idx) of a PerceptronLayer
CallUpdate(l, idx) ==
    /\ layers[l].cls = "PerceptronLayer"
    /\ idx \in 1..layers[l].n_dims
    /\ heap' = PerceptronUpdate(layers, heap, conns, l, idx)
    /\ last' = [op |-> "update", layer |-> l, idx |-> idx, err |-> "",
                energy |-> PerceptronEnergy(layers, heap, conns, l, idx),
                heap_before |-> heap]
    /\ UNCHANGED <<layers, conns>>

\* layer.update(idx) of a BoltzmannMachineLayer
CallBoltzmannUpdate(l, idx, fires) ==
    LET r == BoltzmannUpdate(layers, heap, conns, l, idx, fires)
    IN  /\ layers[l].cls = "BoltzmannMachineLayer"
        /\ idx \in 1..layers[l].n_dims
        /\ heap' = r.heap
        /\ last' = [op |-> "boltzmann_update", layer |-> l, idx |-> idx,
                    err |-> r.err, fires |-> fires,
                    returned |-> OutputEnergy(layers, heap, conns, l, idx),
                    e_in |-> RAdd(R(layers[l].bias[idx]),
                                  InputEnergy(layers, heap, conns, l, idx)),
                    shadow |-> OutputEnergySum(layers, heap, conns, l, idx)]
        /\ UNCHANGED <<layers, conns>>

\* layer.update_history() for the layers lo..hi, in order
CallUpdateHistory(lo, hi) ==
    /\ layers' = [l \in DOMAIN layers |->
                    IF l \in lo..hi THEN UpdateHistory(layers[l]) ELSE layers[l]]
    /\ heap' = Collect(heap, layers')
    /\ last' = [op |-> "update_history", lo |-> lo, hi |-> hi, err |-> "",
                before |-> [l \in lo..hi |-> layers[l].history],
                heap_before |-> heap]
    /\ UNCHANGED conns

\* layer.reset(), called by Network.update_network: empties the history;
\* for the layers lo..hi
ResetKeepsHistory(ly) == ly
Reset(ly) == [ly EXCEPT !.history = <<>>]
CallReset(lo, hi) ==
    /\ layers' = [l \in DOMAIN layers |->
                    IF l \in lo..hi THEN Reset(layers[l]) ELSE layers[l]]
    /\ heap' = Collect(heap, layers')
    /\ last' = [op |-> "reset", lo |-> lo, hi |-> hi, err |-> ""]
    /\ UNCHANGED conns

\* layer.firing_rates()
CallFiringRates(l) ==
    LET r == FiringRates(layers[l], heap)
    IN  /\ last' = [op |-> "firing_rates", layer |-> l,
                    err |-> IF r.kind = "error" THEN r.err ELSE "",
                    result |-> r]
        /\ UNCHANGED <<layers, heap, conns>>

\* connection.weight_update()
CallWeightUpdate(c) ==
    LET r == WeightUpdate(conns[c], layers, heap)
    IN  /\ c \in DOMAIN conns
        /\ conns' = [conns EXCEPT ![c] = r.conn]
        /\ last' = [op |-> "weight_update", conn |-> c, err |-> r.err,
                    applied |-> r.applied, before |-> conns[c]]
        /\ UNCHANGED <<layers, heap>>

\* connection.accumulate_weight_update(), called directly
CallAccumulate(c) ==
    LET r == Accumulate(conns[c], layers, heap)
    IN  /\ c \in DOMAIN conns
        /\ conns' = [conns EXCEPT ![c].weight_updates = r.updates]
        /\ last' = [op |-> "accumulate_weight_update", conn |-> c, err |-> r.err,
                    before |-> conns[c], layers_before |-> layers,
                    heap_before |-> heap]
        /\ UNCHANGED <<layers, heap>>

Count(field) == counts' = [counts EXCEPT ![field] = @ + 1]
NoCounts == [wu |-> 0, ins |-> 0, epochs |-> 0]

-----------------------------------------------------------------------------------------------------------------------------------------------------
(* SpecConn: one connection between an input layer and a perceptron layer  *)
(* of two units each.  External code constructs the connection, binds it   *)
(* to a parameter object and then repeats what one presentation of         *)
(* Network.update_network followed by Network.training_iteration calls on  *)
(* these objects: reset, set_state, update of each unit, update_history,   *)
(* weight_update.                                                          *)

ConnDraws == { <<<<1, -1>>, <<-2, 3>>>>, <<<<-1, -1>>, <<-1, -1>>>> }
ConnStimuli == { <<1, -1>>, <<2, 1>> }
ConnRates == { None, Some(R(0)), Some(RNorm(1, 2)) }
ConnParams == NetworkParams(2, FALSE)
\* the weight_learning_rate the caller gave the parameter object, if any
ConnGivenRates == { None, Some(RNorm(1, 4)) }

\* the caller is about to update unit idx of the perceptron layer
UnitPc(idx) == IF idx = 1 THEN "update_1" ELSE "update_2"

InitConn ==
    /\ \E kind \in LayerKinds :
         layers = [l \in {1, 2} |->
            SetParentage(
              IF l = 1 THEN NewLayer("InputLayer", 2, kind, <<0, 0>>, 1)
                       ELSE NewLayer("PerceptronLayer", 2, "unconstrained", <<0, 0>>, 2),
              ConnParams.presentations)]
    /\ heap = [r \in {1, 2} |-> Vec(2, 1)]
    /\ conns = <<>>
    /\ net = NoNet
    /\ pc = "construct"
    /\ last = [op |-> "none", err |-> ""]
    /\ counts = NoCounts
    /\ seterr = "raise"

ConnConstruct ==
    /\ pc = "construct"
    /\ \E ctype \in ConnTypes, draws \in ConnDraws, lr \in ConnRates :
          /\ ctype = "ConstantConnection" => lr = None
          /\ ConstructConnection(1, ctype, 1, 2, lr, draws)
    /\ pc' = "bind"
    /\ UNCHANGED <<net, counts>>
    /\ UNCHANGED seterr

ConnBind ==
    /\ pc = "bind"
    /\ \E b \in 0..MaxBatch, given \in ConnGivenRates :
          BindConnection(1, IF given.some
                            THEN WithWeightLearningRate(WithBatchSize(ConnParams, b),
                                                        given.val)
                            ELSE WithBatchSize(ConnParams, b))
    /\ pc' = IF last'.err = "" THEN "reset" ELSE "failed"
    /\ UNCHANGED <<net, counts>>
    /\ UNCHANGED seterr

ConnReset ==
    /\ pc = "reset"
    /\ counts.wu < MaxCalls
    /\ CallReset(1, 2)
    /\ pc' = "set_state"
    /\ UNCHANGED <<net, counts>>
    /\ UNCHANGED seterr

ConnSetState ==
    /\ pc = "set_state"
    /\ \E v \in ConnStimuli : CallSetState(1, Stimulus(v))
    /\ pc' = UnitPc(1)
    /\ UNCHANGED <<net, counts>>
    /\ UNCHANGED seterr

ConnUpdate ==
    /\ \E idx \in 1..2 :
          /\ pc = UnitPc(idx)
          /\ CallUpdate(2, idx)
          /\ pc' = IF idx = 2 THEN "update_history" ELSE UnitPc(idx + 1)
    /\ UNCHANGED <<net, counts>>
    /\ UNCHANGED seterr

ConnUpdateHistory ==
    /\ pc = "update_history"
    /\ CallUpdateHistory(1, 2)
    /\ pc' = "weight_update"
    /\ UNCHANGED <<net, counts>>
    /\ UNCHANGED seterr

ConnWeightUpdate ==
    /\ pc = "weight_update"
    /\ CallWeightUpdate(1)
    /\ pc' = "reset"
    /\ Count("wu")
    /\ UNCHANGED net
    /\ UNCHANGED seterr

\* instead of weight_update() the caller calls accumulate_weight_update()
\* itself, and stops
ConnAccumulate ==
    /\ pc = "weight_update"
    /\ CallAccumulate(1)
    /\ pc' = "done"
    /\ UNCHANGED <<net, counts>>
    /\ UNCHANGED seterr

NextConn ==
    \/ ConnConstruct
    \/ ConnBind
    \/ ConnReset
    \/ ConnSetState
    \/ ConnUpdate
    \/ ConnUpdateHistory
    \/ ConnWeightUpdate
    \/ ConnAccumulate

SpecConn == InitConn /\ [][NextConn]_vars

-----------------------------------------------------------------------------
(* SpecHist: one layer driven through update_history, update, set_state    *)
(* and firing_rates.  A perceptron layer starts with an empty history and  *)
(* runs through the truncation twice; an input layer starts with a history *)
(* that earlier update_history calls filled up to one entry below the      *)
(* limit, the older entries being the array of an earlier set_state.       *)

HistBiases == {-1, 0, 1}
HistStimuli == { <<0>>, <<3>> }
HistPresentations == {1, 2}

\* the history after full - 1 insertions, the last recent of them made
\* after a set_state call that replaced array 1 by array 2
FilledHistory(full, recent) == [k \in 1..(full - 1) |-> IF k <= recent THEN 2 ELSE 1]

InitHist ==
    /\ \/ /\ \E b \in HistBiases, cls \in {"PerceptronLayer", "BoltzmannMachineLayer"} :
               layers = <<NewLayer(cls, 1, "unconstrained", <<b>>, 1)>>
          /\ heap = <<<<1>>>>
       \/ /\ layers = <<[NewLayer("InputLayer", 1, "unconstrained", <<0>>, 2)
                           EXCEPT !.history =
                               FilledHistory(2 * max_history_length,
                                             max_history_length - 2)]>>
          /\ heap = << <<1>>, <<3>> >>
    /\ conns = <<>>
    /\ net = NoNet
    /\ pc = "idle"
    /\ last = [op |-> "none", err |-> ""]
    /\ counts = NoCounts
    /\ seterr \in ErrModes

\* update_history calls made in one behaviour
InsertCap ==
    IF layers[1].cls = "PerceptronLayer"
    THEN 3 * max_history_length + MaxInserts
    ELSE MaxInserts

HistSetParentage ==
    /\ ~layers[1].avg_weighting.some
    /\ \E P \in HistPresentations :
          /\ layers' = IF SetParentageError(P, seterr) = ""
                       THEN [layers EXCEPT ![1] = SetParentage(@, P)]
                       ELSE layers
          /\ last' = [op |-> "set_parentage", layer |-> 1, presentations |-> P,
                      err |-> SetParentageError(P, seterr)]
    /\ UNCHANGED <<heap, conns, net, pc, counts>>
    /\ UNCHANGED seterr

HistUpdateHistory ==
    /\ counts.ins < InsertCap
    /\ CallUpdateHistory(1, 1)
    /\ Count("ins")
    /\ UNCHANGED <<net, pc>>
    /\ UNCHANGED seterr

HistSetState ==
    /\ \E v \in HistStimuli : CallSetState(1, Stimulus(v))
    /\ UNCHANGED <<net, pc, counts>>
    /\ UNCHANGED seterr

HistUpdate ==
    /\ CallUpdate(1, 1)
    /\ UNCHANGED <<net, pc, counts>>
    /\ UNCHANGED seterr

HistBoltzmannUpdate ==
    /\ \E fires \in BOOLEAN : CallBoltzmannUpdate(1, 1, fires)
    /\ UNCHANGED <<net, pc, counts>>
    /\ UNCHANGED seterr

\* firing_rates() is called on the histories the calls above have built,
\* not on the long ones a layer may start with
HistFiringRates ==
    /\ Len(layers[1].history) <= MaxInserts
    /\ CallFiringRates(1)
    /\ UNCHANGED <<net, pc, counts>>
    /\ UNCHANGED seterr

NextHist ==
    \/ HistSetParentage
    \/ HistUpdateHistory
    \/ HistSetState
    \/ HistUpdate
    \/ HistBoltzmannUpdate
    \/ HistFiringRates

SpecHist == InitHist /\ [][NextHist]_vars

-----------------------------------------------------------------------------------------------------------------------------------------------------
(* The network: brio/blocks/network.py *)

\* str(connection), the key of Network.connections: Connection.__repr__
\* gives the class name and str() of the two layers; Layer defines neither
\* __str__ nor __repr__, so str(layer) names the layer object
Label(cn) == <<cn.ctype, cn.presynaptic_layer, cn.postsynaptic_layer>>

\* the set Network.__find_connections collects: every connection in the
\* inputs or outputs list of a layer of the network
FoundConnections(ls, lseq) ==
    UNION {SeqRange(ls[l].inputs) \cup SeqRange(ls[l].outputs) : l \in SeqRange(lseq)}

\* the mappings __find_connections can build from that set: the set is
\* iterated in an arbitrary order and a connection stored under a label
\* already present replaces the earlier one
ConnectionMaps(found, cs) ==
    LET keys == {Label(cs[c]) : c \in found}
    IN  {m \in [keys -> found] : \A k \in keys : Label(cs[m[k]]) = k}

MapRange(m) == {m[k] : k \in DOMAIN m}

\* layer.set_up(network), called by Network.__set_up_children: binds the
\* layer and builds the kernel from the network's presentations
LayerSetUp(ly, params) == SetParentage(ly, params.presentations)

\* roll_itr(stimulus_generator, stimuli_per_epoch): the next batch of a
\* stream of equal stimuli v, an array of shape (n_dims, stimuli_per_epoch)
RollItr(v, per_epoch) == Rolled(v, per_epoch)

-----------------------------------------------------------------------------
(* Spec: three layers, connections constructed between them, a Network    *)
(* constructed from two or three of the layers, and train calls on it.     *)

NetEdges == { <<1, 2>>, <<2, 3>>, <<3, 2>> }
NetConnTypes == {"OjaConnection", "ConstantConnection"}
NetRates == { None, Some(RNorm(1, 2)) }
NetLayerLists == { <<1, 2>>, <<1, 2, 3>> }
NetParams == { NetworkParams(1, FALSE), NetworkParams(2, FALSE),
               NetworkParams(1, TRUE), NetworkParams(2, TRUE) }
NetStimuli == { <<1, -1>>, <<2, 1>> }

\* the draws of np.random.randn for a connection between two layers
NetDraws(n_pre, n_post) ==
    [j \in 1..n_pre |-> [i \in 1..n_post |-> IF j = i THEN 2 ELSE -1]]

Init ==
    /\ layers = << NewLayer("InputLayer", 2, "unconstrained", <<0, 0>>, 1),
                   NewLayer("PerceptronLayer", 2, "inhibitory", <<0, 1>>, 2),
                   NewLayer("PerceptronLayer", 2, "excitatory", <<-1, 0>>, 3) >>
    /\ heap = [r \in 1..3 |-> Vec(2, 1)]
    /\ conns = <<>>
    /\ net = NoNet
    /\ pc = "wire"
    /\ last = [op |-> "none", err |-> ""]
    /\ counts = NoCounts
    /\ seterr \in ErrModes

\* a connection is constructed before the network
NetConnect ==
    /\ pc = "wire"
    /\ seterr = "raise"
    /\ Len(conns) < MaxConns
    /\ \E ctype \in NetConnTypes, e \in NetEdges, lr \in NetRates :
          /\ ctype = "ConstantConnection" => lr = None
          /\ ConstructConnection(Len(conns) + 1, ctype, e[1], e[2], lr,
                                 NetDraws(layers[e[1]].n_dims, layers[e[2]].n_dims))
    /\ UNCHANGED <<net, pc, counts>>
    /\ UNCHANGED seterr

\* Network.__init__(layers, params): __find_connections, then the layers'
\* part of __set_up_children; the connections are set up one by one next.
\* When set_parentage raises, it does so for the first layer and the
\* constructor ends there.
NetworkInit ==
    /\ pc = "wire"
    /\ \E lseq \in NetLayerLists, params \in NetParams :
         LET found == FoundConnections(layers, lseq)
         IN  \E m \in ConnectionMaps(found, conns) :
                /\ net' = [constructed |-> FALSE,
                           layers |-> lseq,
                           params |-> params,
                           connections |-> m,
                           found |-> found,
                           t_counter |-> 0,
                           pending |-> MapRange(m),
                           train |-> [mode |-> "none", rolled |-> FALSE, left |-> 0,
                                      batches |-> 0, t0 |-> 0, value |-> <<>>,
                                      conns0 |-> <<>>],
                           batch |-> Stimulus(<<>>),
                           cur |-> [p |-> 0, li |-> 0, idx |-> 0],
                           trace |-> <<>>,
                           wrote |-> <<>>,
                           start |-> <<>>]
                /\ IF SetParentageError(params.presentations, seterr) = ""
                     THEN /\ layers' = [l \in DOMAIN layers |->
                                          IF l \in SeqRange(lseq)
                                          THEN LayerSetUp(layers[l], params)
                                          ELSE layers[l]]
                          /\ pc' = "set_up"
                          /\ last' = [op |-> "Network", err |-> ""]
                     ELSE /\ layers' = layers
                          /\ pc' = "failed"
                          /\ last' = [op |-> "Network",
                                      err |-> SetParentageError(params.presentations,
                                                                seterr)]
    /\ UNCHANGED <<heap, conns, counts>>
    /\ UNCHANGED seterr

\* connection.set_up(network) for the next connection of
\* self.connections.itervalues(): unpack_network_params
NetSetUpConnection ==
    /\ pc = "set_up"
    /\ net.pending # {}
    /\ \E c \in net.pending :
         LET r == UnpackNetworkParams(conns[c], net.params)
         IN  /\ conns' = [conns EXCEPT ![c] = r.conn]
             /\ IF r.err = ""
                  THEN /\ net' = [net EXCEPT !.pending = @ \ {c}]
                       /\ pc' = pc
                       /\ last' = [op |-> "set_up", conn |-> c, err |-> ""]
                  ELSE /\ net' = net
                       /\ pc' = "failed"
                       /\ last' = [op |-> "Network", conn |-> c, err |-> r.err]
    /\ UNCHANGED <<layers, heap, counts>>
    /\ UNCHANGED seterr

\* the rest of Network.__init__: t_counter = 0; display and async are off
\* or need nothing that is modelled
NetConstructed ==
    /\ pc = "set_up"
    /\ net.pending = {}
    /\ net' = [net EXCEPT !.constructed = TRUE, !.t_counter = 0]
    /\ pc' = "idle"
    /\ last' = [op |-> "Network", err |-> ""]
    /\ UNCHANGED <<layers, heap, conns, counts>>
    /\ UNCHANGED seterr

\* network.train(stimulus_generator, rolled): the stream yields batches
\* more batches; without rolled, these are stimuli_per_epoch * batches
\* stimuli that roll_itr groups
NetTrain ==
    /\ pc = "idle"
    /\ net.constructed
    /\ \E rolled \in BOOLEAN, batches \in 0..(MaxEpochs - counts.epochs),
          v \in NetStimuli :
          net' = [net EXCEPT !.train = [mode |-> "train",
                                        rolled |-> rolled, left |-> batches,
                                        batches |-> batches,
                                        t0 |-> net.t_counter, value |-> v,
                                        conns0 |-> conns]]
    /\ pc' = "train_next"
    /\ last' = [op |-> "train_call", err |-> ""]
    /\ UNCHANGED <<layers, heap, conns, counts>>
    /\ UNCHANGED seterr

\* network.update_network(rolled_stimuli), called directly as
\* record_responses of brio/misc/sta.py does: t_counter is not advanced and
\* no training_iteration follows
NetCallUpdateNetwork ==
    /\ pc = "idle"
    /\ net.constructed
    /\ counts.epochs < MaxEpochs
    /\ \E v \in NetStimuli :
         \E b \in {Stimulus(v), Rolled(v, stimuli_per_epoch)} :
            net' = [net EXCEPT !.train = [mode |-> "update_network",
                                          rolled |-> TRUE, left |-> 0, batches |-> 0,
                                          t0 |-> net.t_counter, value |-> v,
                                          conns0 |-> conns],
                               !.batch = b]
    /\ pc' = "un_reset"
    /\ last' = [op |-> "update_network_call", err |-> ""]
    /\ Count("epochs")
    /\ UNCHANGED <<layers, heap, conns>>
    /\ UNCHANGED seterr

\* network.training_iteration(), called directly
NetCallTrainingIteration ==
    /\ pc = "idle"
    /\ net.constructed
    /\ counts.epochs < MaxEpochs
    /\ net' = [net EXCEPT !.train = [mode |-> "training_iteration",
                                     rolled |-> FALSE, left |-> 0, batches |-> 0,
                                     t0 |-> net.t_counter, value |-> <<>>,
                                     conns0 |-> conns],
                          !.pending = MapRange(net.connections)]
    /\ pc' = "ti_weights"
    /\ last' = [op |-> "training_iteration_call", err |-> ""]
    /\ Count("epochs")
    /\ UNCHANGED <<layers, heap, conns>>
    /\ UNCHANGED seterr

\* where control goes when update_network returns: back into train, or to
\* the caller of a direct call
AfterUpdateNetwork == IF net.train.mode = "train" THEN "counter" ELSE "idle"

\* what the running call (train, or a direct call) leaves in last when it
\* returns or raises
TrainEnded(err) ==
    [op |-> net.train.mode, err |-> err, rolled |-> net.train.rolled,
     batches |-> net.train.batches, t0 |-> net.train.t0,
     left |-> net.train.left, conns0 |-> net.train.conns0]

\* for rolled_stimuli in stim_gen: the next batch, or the end of the stream.
\* A rolled stream yields what the caller put in it: arrays of shape (n,)
\* or of shape (n, stimuli_per_epoch).
NetNextBatch ==
    /\ pc = "train_next"
    /\ IF net.train.left = 0
         THEN /\ pc' = "idle"
              /\ last' = TrainEnded("")
              /\ net' = net
              /\ counts' = counts
         ELSE /\ \E b \in IF net.train.rolled
                            THEN {Stimulus(net.train.value),
                                  Rolled(net.train.value, stimuli_per_epoch)}
                            ELSE {RollItr(net.train.value, net.params.stimuli_per_epoch)} :
                    net' = [net EXCEPT !.batch = b, !.train.left = @ - 1]
              /\ pc' = "un_reset"
              /\ last' = [op |-> "next_batch", err |-> ""]
              /\ Count("epochs")
    /\ UNCHANGED <<layers, heap, conns>>
    /\ UNCHANGED seterr

\* what the running update_network call did so far is kept in net.trace:
\* the call with the history lengths it found, each update(idx) and each
\* round of update_history, with the presentation they belong to;
\* net.wrote[k] is the value the update(idx) of net.trace[k] assigned to
\* state[idx] (0 for the other events)
CallEvent(ls, lseq) ==
    [e |-> "update_network",
     lens |-> [k \in 1..Len(lseq) |-> Len(ls[lseq[k]].history)]]
UpdateEvent(p, l, idx) == [e |-> "update", p |-> p, layer |-> l, idx |-> idx]
HistoryEvent(p) == [e |-> "update_history", p |-> p]

\* the values of every layer's state array
StateValues(ls, h) == [l \in DOMAIN ls |-> h[ls[l].state]]

\* update_network: for layer in self.layers: layer.reset()
NetReset ==
    /\ pc = "un_reset"
    /\ layers' = [l \in DOMAIN layers |->
                    IF l \in SeqRange(net.layers) THEN Reset(layers[l]) ELSE layers[l]]
    /\ heap' = Collect(heap, layers')
    /\ pc' = "un_set_state"
    /\ last' = [op |-> "reset", err |-> ""]
    /\ net' = [net EXCEPT !.trace = <<CallEvent(layers, net.layers)>>,
                          !.wrote = <<0>>]
    /\ UNCHANGED <<conns, counts>>
    /\ UNCHANGED seterr

\* update_network: self.layers[0].set_state(rolled_stimuli)
NetSetState ==
    /\ pc = "un_set_state"
    /\ IF SetStateAccepts(layers[net.layers[1]], net.batch)
         THEN /\ layers' = SetState(layers, heap, net.layers[1], net.batch).layers
              /\ heap' = SetState(layers, heap, net.layers[1], net.batch).heap
              /\ pc' = "un_mode"
              /\ last' = [op |-> "set_state", err |-> ""]
         ELSE /\ pc' = "idle"
              /\ last' = TrainEnded("AssertionError")
              /\ UNCHANGED <<layers, heap>>
    /\ UNCHANGED <<conns, net, counts>>
    /\ UNCHANGED seterr

\* for layer in self.layers[1:]: the layers a presentation updates, in the
\* order of the loop
UpdatedLayers(lseq) == SubSeq(lseq, 2, Len(lseq))

\* the first unit to update in presentation p: unit 1 of the first of the
\* updated layers
FirstUnit(p) == [p |-> p, li |-> 1, idx |-> 1]

\* where a presentation starts: at the first unit, or at update_history
\* when no layer follows the input layer
PresentationPc(lseq) ==
    IF UpdatedLayers(lseq) = <<>> THEN "un_history" ELSE "un_update"

\* update_network: if self.params.async: raise NotImplementedError; else
\* the loop over the presentations starts
NetMode ==
    /\ pc = "un_mode"
    /\ IF net.params.async
         THEN /\ pc' = "idle"
              /\ last' = TrainEnded("NotImplementedError")
              /\ net' = net
         ELSE IF net.params.presentations >= 1
         THEN /\ pc' = PresentationPc(net.layers)
              /\ last' = [op |-> "presentations", err |-> ""]
              /\ net' = [net EXCEPT !.cur = FirstUnit(1),
                                    !.start = StateValues(layers, heap)]
         ELSE /\ pc' = AfterUpdateNetwork
              /\ last' = [op |-> "presentations", err |-> ""]
              /\ net' = net
    /\ UNCHANGED <<layers, heap, conns, counts>>
    /\ UNCHANGED seterr

\* Layer.sync_update(): the units of the layer in the order update(idx) is
\* called for them, the index order
SyncUpdateOrderReversed(n) == [k \in 1..n |-> n + 1 - k]
SyncUpdateOrder(n) == [k \in 1..n |-> k]

\* layer.sync_update() of the layers after the first, one unit at a time:
\* layer.update(idx) for the units in the order of SyncUpdateOrder;
\* net.cur.idx is the place in that order
NetUpdateUnit ==
    /\ pc = "un_update"
    /\ LET l == UpdatedLayers(net.layers)[net.cur.li]
           idx == SyncUpdateOrder(layers[l].n_dims)[net.cur.idx]
           after == PerceptronUpdate(layers, heap, conns, l, idx)
           seen == Append(net.trace, UpdateEvent(net.cur.p, l, idx))
           vals == Append(net.wrote, heap'[layers[l].state][idx])
       IN  /\ heap' = after
           /\ last' = [op |-> "update", layer |-> l, idx |-> idx, err |-> "",
                       energy |-> PerceptronEnergy(layers, heap, conns, l, idx)]
           /\ IF net.cur.idx < layers[l].n_dims
                THEN /\ net' = [net EXCEPT !.cur.idx = @ + 1, !.trace = seen,
                                           !.wrote = vals]
                     /\ pc' = pc
              ELSE IF net.cur.li < Len(UpdatedLayers(net.layers))
                THEN /\ net' = [net EXCEPT !.cur.li = @ + 1, !.cur.idx = 1,
                                           !.trace = seen, !.wrote = vals]
                     /\ pc' = pc
              ELSE /\ net' = [net EXCEPT !.trace = seen, !.wrote = vals]
                   /\ pc' = "un_history"
    /\ UNCHANGED <<layers, conns, counts>>
    /\ UNCHANGED seterr

\* update_network: for layer in self.layers: layer.update_history(), then
\* the next presentation or the end of update_network
NetUpdateHistory ==
    /\ pc = "un_history"
    /\ layers' = [l \in DOMAIN layers |->
                    IF l \in SeqRange(net.layers) THEN UpdateHistory(layers[l])
                    ELSE layers[l]]
    /\ heap' = Collect(heap, layers')
    /\ last' = [op |-> "update_history", lo |-> 1, hi |-> Len(net.layers), err |-> "",
                before |-> [l \in 1..Len(net.layers) |-> layers[l].history],
                p |-> net.cur.p]
    /\ IF net.cur.p < net.params.presentations
         THEN /\ net' = [net EXCEPT !.cur = FirstUnit(net.cur.p + 1),
                                    !.trace = Append(@, HistoryEvent(net.cur.p)),
                                    !.wrote = Append(@, 0),
                                    !.start = StateValues(layers, heap)]
              /\ pc' = PresentationPc(net.layers)
         ELSE /\ net' = [net EXCEPT !.trace = Append(@, HistoryEvent(net.cur.p)),
                                    !.wrote = Append(@, 0)]
              /\ pc' = AfterUpdateNetwork
    /\ UNCHANGED <<conns, counts>>
    /\ UNCHANGED seterr

\* train: self.t_counter += self.params.stimuli_per_epoch; then
\* training_iteration starts: update_lifetime_mean of every layer changes
\* nothing that is modelled
Advance(t, by) == t + by
NetCounter ==
    /\ pc = "counter"
    /\ net' = [net EXCEPT !.t_counter = Advance(@, net.params.stimuli_per_epoch),
                          !.pending = MapRange(net.connections)]
    /\ pc' = "ti_weights"
    /\ last' = [op |-> "counter", err |-> "", before |-> net.t_counter]
    /\ UNCHANGED <<layers, heap, conns, counts>>
    /\ UNCHANGED seterr

\* training_iteration: connection.weight_update() for the next connection
\* of self.connections.itervalues()
NetWeightUpdate ==
    /\ pc = "ti_weights"
    /\ net.pending # {}
    /\ \E c \in net.pending :
         LET r == WeightUpdate(conns[c], layers, heap)
         IN  /\ conns' = [conns EXCEPT ![c] = r.conn]
             /\ IF r.err = ""
                  THEN /\ net' = [net EXCEPT !.pending = @ \ {c}]
                       /\ pc' = pc
                       /\ last' = [op |-> "weight_update", conn |-> c, err |-> "",
                                   applied |-> r.applied, before |-> conns[c]]
                  ELSE /\ net' = net
                       /\ pc' = "idle"
                       /\ last' = TrainEnded(r.err)
    /\ UNCHANGED <<layers, heap, counts>>
    /\ UNCHANGED seterr

\* training_iteration: layer.bias_update() of the layers after the first (a
\* stub); in train describe_progress follows, which changes nothing
NetProgress ==
    /\ pc = "ti_weights"
    /\ net.pending = {}
    /\ pc' = IF net.train.mode = "train" THEN "train_next" ELSE "idle"
    /\ last' = [op |-> IF net.train.mode = "train" THEN "describe_progress"
                       ELSE "training_iteration",
                err |-> ""]
    /\ UNCHANGED <<layers, heap, conns, net, counts>>
    /\ UNCHANGED seterr

Next ==
    \/ NetConnect
    \/ NetworkInit
    \/ NetSetUpConnection
    \/ NetConstructed
    \/ NetTrain
    \/ NetCallUpdateNetwork
    \/ NetCallTrainingIteration
    \/ NetNextBatch
    \/ NetReset
    \/ NetSetState
    \/ NetMode
    \/ NetUpdateUnit
    \/ NetUpdateHistory
    \/ NetCounter
    \/ NetWeightUpdate
    \/ NetProgress

Spec == Init /\ [][Next]_vars

-----
(* Claims about Connection.weight_update, checked under SpecConn *)

One == R(1)
Zero == R(0)

\* the pending list weight_update() worked on in the call recorded in last:
\* the list before the call and the delta the call appended
PendingAtLastCall == Accumulate(last.before, layers, heap).updates

\* the batch size the connection of the last weight_update() call is bound to
BatchSizeAtLastCall == last.before.params.val.update_batch_size

Constrained(c) == LayerType(layers[conns[c].presynaptic_layer].ltype).constrain_weights

\* C1: a connection whose presynaptic layer kind has constrain_weights set
\* (excitatory, inhibitory) has no negative weight in any state: after its
\* construction and after every weight_update() call, batch applied or not.
C1_NonNegativeWeights ==
    \A c \in DOMAIN conns :
        Constrained(c) =>
            \A j \in 1..Rows(conns[c].weights), i \in 1..Cols(conns[c].weights) :
                ~RNeg(conns[c].weights[j][i])

\* a batch was applied to a constrained connection and the clamp acted: the
\* sum of old weight and mean was negative somewhere
C1_Witness ==
    /\ last.op = "weight_update"
    /\ last.applied
    /\ Constrained(last.conn)
    /\ \E j \in 1..2, i \in 1..2 :
          /\ RNeg(ApplyBatch(last.before.weights, PendingAtLastCall)[j][i])
          /\ conns[last.conn].weights[j][i] = Zero

\* C2: a ConstantConnection between layers of equal dimension has the
\* identity matrix as weights and an empty pending list in every state,
\* whatever update_batch_size and the presynaptic layer kind are.
C2_ConstantIsIdentity ==
    \A c \in DOMAIN conns :
        (/\ conns[c].ctype = "ConstantConnection"
         /\ layers[conns[c].presynaptic_layer].n_dims
              = layers[conns[c].postsynaptic_layer].n_dims)
        => /\ conns[c].weight_updates = <<>>
           /\ Rows(conns[c].weights) = layers[conns[c].presynaptic_layer].n_dims
           /\ \A j \in 1..Rows(conns[c].weights) :
                 /\ Len(conns[c].weights[j]) = Rows(conns[c].weights)
                 /\ \A i \in 1..Rows(conns[c].weights) :
                       conns[c].weights[j][i] = IF i = j THEN One ELSE Zero

\* weight_update() was called twice or more on a ConstantConnection whose
\* batch size is 0, the case in which the batch condition holds
C2_Witness ==
    /\ last.op = "weight_update"
    /\ conns[last.conn].ctype = "ConstantConnection"
    /\ BatchSizeAtLastCall = 0
    /\ counts.wu >= 2

\* C9: when weight_update() applies a batch, each weight grows by the mean
\* over the pending deltas of its own entry (before the clamp), not by one
\* scalar common to all entries.
C9_ElementwiseMean ==
    (last.op = "weight_update" /\ last.applied)
    => conns[last.conn].weights
         = Constrain(ApplyBatchElementwise(last.before.weights, PendingAtLastCall),
                     layers[last.before.presynaptic_layer].ltype)

\* C10: for a trainable connection with update_batch_size >= 1, a
\* weight_update() call that returns appends one delta; if the list is then
\* shorter than the batch size the weights are unchanged, otherwise the batch
\* is applied and the list emptied.  The list is shorter than the batch size
\* after every call and batches are applied at every update_batch_size-th
\* call only.
C10_BatchEveryNthCall ==
    (/\ last.op = "weight_update"
     /\ last.err = ""
     /\ last.before.ctype \in Trainable
     /\ BatchSizeAtLastCall >= 1)
    => LET before == last.before
           now == conns[last.conn]
           B == BatchSizeAtLastCall
       IN  /\ Len(PendingAtLastCall) = Len(before.weight_updates) + 1
           /\ IF Len(before.weight_updates) + 1 < B
                THEN /\ ~last.applied
                     /\ now.weights = before.weights
                     /\ now.weight_updates = PendingAtLastCall
                ELSE /\ last.applied
                     /\ now.weight_updates = <<>>
           /\ Len(now.weight_updates) < B
           /\ last.applied <=> (counts.wu % B = 0)
           /\ (now.weights # before.weights) => (counts.wu % B = 0)

\* the second call of a connection with batch size 2 applied the batch and
\* changed the weights
C10_Witness ==
    /\ last.op = "weight_update"
    /\ last.before.ctype \in Trainable
    /\ BatchSizeAtLastCall = 2
    /\ counts.wu = 2
    /\ last.applied
    /\ Len(last.before.weight_updates) = 1
    /\ conns[last.conn].weights # last.before.weights

-----------------------------------------------------------------------------
(* Claims about Layer, checked under SpecHist and SpecConn *)

\* C3: a history never holds more than 1000 entries; update_history() on a
\* history of 1000 entries leaves 500: the array just inserted followed by
\* the 499 newest of the old entries, in their order; any other call
\* prepends the state array and keeps every old entry.
C3_HistorySawtooth ==
    \A l \in DOMAIN layers :
        /\ Len(layers[l].history) <= 1000
        /\ (last.op = "update_history" /\ l \in last.lo..last.hi)
           => LET before == last.before[l]
                  now == layers[l].history
              IN  /\ now[1] = layers[l].state
                  /\ IF Len(before) = 1000
                       THEN /\ Len(now) = 500
                            /\ \A k \in 2..500 : now[k] = before[k - 1]
                       ELSE /\ Len(now) = Len(before) + 1
                            /\ \A k \in 2..Len(now) : now[k] = before[k - 1]

\* update_history() was called on a history of 1000 entries and left 500,
\* among them three different arrays, the oldest at the end
C3_Witness ==
    /\ last.op = "update_history"
    /\ Len(last.before[1]) = 1000
    /\ Len(layers[1].history) = 500
    /\ Cardinality(SeqRange(layers[1].history)) >= 3
    /\ layers[1].history[500] = last.before[1][499]
    /\ layers[1].history[500] # layers[1].history[2]

\* C4: firing_rates() of a layer with an empty history returns a vector of
\* n_dims zeros.
C4_EmptyHistoryZeroVector ==
    (/\ last.op = "firing_rates"
     /\ layers[last.layer].history = <<>>
     /\ layers[last.layer].avg_weighting.some)
    => /\ last.result.kind = "vector"
       /\ last.result.val = Vec(layers[last.layer].n_dims, Zero)

\* C8: PerceptronLayer.update(idx) sets state[idx] to +1 when the energy is
\* > 0 and to -1 when it is <= 0, so the entry is one of -1, +1.
C8_PerceptronThreshold ==
    (last.op = "update")
    => LET v == heap[layers[last.layer].state][last.idx]
       IN  /\ v \in {-1, 1}
           /\ (v = 1) <=> RPos(last.energy)

\* a unit was updated with an energy of exactly 0 and is now -1
C8_Witness ==
    /\ last.op = "update"
    /\ last.energy = Zero
    /\ heap[layers[last.layer].state][last.idx] = -1

-----------------------------------------------------------------------------
(* Claims about Network, checked under Spec *)

\* C5: a train call on a stream that is not rolled and yields
\* stimuli_per_epoch * k stimuli returns without error and has advanced
\* t_counter by 100 * k.
C5_TrainCompletes ==
    (last.op = "train" /\ ~last.rolled)
    => /\ last.err = ""
       /\ net.t_counter = last.t0 + 100 * last.batches

\* C6: the connections mapping of a constructed network holds each
\* connection object found in the layers' inputs and outputs lists exactly
\* once: no object is missing and no two objects share an entry.
C6_OneEntryPerConnection ==
    net.constructed
    => /\ MapRange(net.connections) = FoundConnections(layers, net.layers)
       /\ Cardinality(DOMAIN net.connections)
            = Cardinality(FoundConnections(layers, net.layers))

\* C7: both layers of every connection in the connections mapping of a
\* constructed network are in the network's layer list.
C7_EndpointsInNetwork ==
    net.constructed
    => \A c \in MapRange(net.connections) :
          /\ conns[c].presynaptic_layer \in SeqRange(net.layers)
          /\ conns[c].postsynaptic_layer \in SeqRange(net.layers)

-----------------------------------------------------------------------------
(* Claims about Network.update_network, checked under Spec *)

\* update_network has just returned: the last round of update_history is
\* done and train is about to advance t_counter, or the direct caller has
\* control again
UpdateNetworkReturned ==
    pc \in {"counter", "idle"} /\ last.op = "update_history"

\* the positions in net.trace of an event
PositionsOf(ev) == {k \in DOMAIN net.trace : net.trace[k] = ev}

\* C11: in sync mode, when update_network returns every layer of the
\* network, the input layer included, has a history of exactly
\* presentations entries, whatever the history held before the call, and
\* every unit of every layer after the first was updated exactly once in
\* every presentation, before that presentation's update_history and after
\* the one of the presentation before.
C11_HistoryPerPresentation ==
    UpdateNetworkReturned
    => LET P == net.params.presentations
       IN  /\ ~net.params.async
           /\ \A k \in 1..Len(net.layers) :
                 Len(layers[net.layers[k]].history) = P
           /\ \A p \in 1..P :
                 /\ Cardinality(PositionsOf(HistoryEvent(p))) = 1
                 /\ \A k \in 2..Len(net.layers) :
                       \A idx \in 1..layers[net.layers[k]].n_dims :
                          LET ups == PositionsOf(UpdateEvent(p, net.layers[k], idx))
                          IN  /\ Cardinality(ups) = 1
                              /\ \A u \in ups :
                                    /\ \A q \in PositionsOf(HistoryEvent(p)) : u < q
                                    /\ p > 1 =>
                                        \A q \in PositionsOf(HistoryEvent(p - 1)) : q < u

\* update_network returned in a network of three layers with two
\* presentations whose layers held two history entries each before the call
C11_Witness ==
    /\ UpdateNetworkReturned
    /\ net.params.presentations = 2
    /\ Len(net.layers) = 3
    /\ net.trace[1].lens = <<2, 2, 2>>
    /\ Len(layers[3].history) = 2

-----------------------------------------------------------------------------
(* Claims about the entries of Layer.history, checked under SpecHist *)

\* the values entry k of layer l's history holds, read through heap h
EntryValues(h, hist, k) == h[hist[k]]

\* C12: a history entry of a layer that is not an input layer keeps the
\* values the state had when update_history() inserted it: update(idx)
\* changes the values of no entry, and update_history() puts the values of
\* the state in entry 0 and moves the values of every kept entry one place
\* back.
C12_HistoryEntriesAreSnapshots ==
    /\ (last.op = "update" /\ layers[last.layer].cls # "InputLayer")
       => \A k \in 1..Len(layers[last.layer].history) :
             EntryValues(heap, layers[last.layer].history, k)
               = EntryValues(last.heap_before, layers[last.layer].history, k)
    /\ (last.op = "update_history")
       => \A l \in last.lo..last.hi :
             layers[l].cls # "InputLayer"
             => /\ EntryValues(heap, layers[l].history, 1)
                     = last.heap_before[layers[l].state]
                /\ \A k \in 2..Len(layers[l].history) :
                      EntryValues(heap, layers[l].history, k)
                        = EntryValues(last.heap_before, last.before[l], k - 1)

-----------------------------------------------------------------------------
(* Claims about BoltzmannMachineLayer, checked under SpecHist *)

\* C13: BoltzmannMachineLayer.update(idx) completes without error,
\* output_energy(idx) yields the sum of energy_shadow(idx) over the
\* outgoing connections, and state[idx] becomes the activation of
\* bias[idx] + input energy + that sum.
C13_BoltzmannUpdateUsesShadow ==
    (last.op = "boltzmann_update")
    => /\ last.err = ""
       /\ last.returned = Some(last.shadow)
       /\ heap[layers[last.layer].state][last.idx]
            = BoltzmannActivation(RAdd(last.e_in, last.shadow), last.fires)

-----------------------------------------------------------------------------
(* Claims about accumulate_weight_update and unpack_network_params,        *)
(* checked under SpecConn                                                  *)

\* entry 0 of a layer's history, as values, at the last accumulate call
NewestEntry(l) == last.heap_before[last.layers_before[l].history[1]]

\* C14: OjaConnection.accumulate_weight_update() appends exactly one matrix
\* D to the pending list, with D[j][i] = learning_rate * (pre[j] * post[i]
\* - post[i]^2 * weights[j][i]) for pre and post entry 0 of the layers'
\* histories, and changes neither the weights nor a layer.
C14_OjaDelta ==
    (/\ last.op = "accumulate_weight_update"
     /\ last.before.ctype = "OjaConnection"
     /\ last.err = "")
    => LET before == last.before
           now == conns[last.conn]
           pre == NewestEntry(before.presynaptic_layer)
           post == NewestEntry(before.postsynaptic_layer)
           n == Len(before.weight_updates)
       IN  /\ Len(now.weight_updates) = n + 1
           /\ SubSeq(now.weight_updates, 1, n) = before.weight_updates
           /\ \A j \in 1..Len(pre), i \in 1..Len(post) :
                 now.weight_updates[n + 1][j][i]
                   = RMul(before.learning_rate.val,
                          RSub(R(pre[j] * post[i]),
                               RMul(R(post[i] * post[i]), before.weights[j][i])))
           /\ Rows(now.weight_updates[n + 1]) = Len(pre)
           /\ Cols(now.weight_updates[n + 1]) = Len(post)
           /\ now.weights = before.weights
           /\ layers = last.layers_before
           /\ heap = last.heap_before

\* accumulate_weight_update() was called on an OjaConnection that had one
\* delta pending and a weight that is not 0 where the postsynaptic unit
\* and the presynaptic unit differ in sign
C14_Witness ==
    /\ last.op = "accumulate_weight_update"
    /\ last.before.ctype = "OjaConnection"
    /\ last.err = ""
    /\ Len(last.before.weight_updates) = 1
    /\ Len(conns[last.conn].weight_updates) = 2
    /\ \E j \in 1..2, i \in 1..2 :
          /\ last.before.weights[j][i] # Zero
          /\ NewestEntry(1)[j] * NewestEntry(2)[i] < 0

\* C15: binding a connection to the network parameters keeps a learning
\* rate that was given at construction, 0 included, gives a connection
\* constructed without one the parameters' baseline learning rate, and ends
\* without error; a bound connection always has a learning rate.
C15_LearningRateBinding ==
    /\ (last.op = "unpack_network_params")
       => /\ last.err = ""
          /\ conns[last.conn].params = Some(last.params)
          /\ conns[last.conn].learning_rate
               = IF last.before.learning_rate.some
                 THEN last.before.learning_rate
                 ELSE Some(last.params.baseline_lrate)
    /\ \A c \in DOMAIN conns :
          conns[c].params.some => conns[c].learning_rate.some

-----------------------------------------------------------------------------
(* Claims about the update modes of Network.update_network, under Spec *)

\* the events of kind e in the trace of the last update_network call
EventsOf(e) == {k \in DOMAIN net.trace : net.trace[k].e = e}

\* C16: with params.async set, update_network(batch) ends in
\* NotImplementedError, whether it is called directly or by train on a
\* stream that is not empty, in which case train ends with it in its first
\* epoch: no unit was updated, no state was appended to a history, and
\* t_counter and all weights are as they were before the call.
C16_AsyncNotImplemented ==
    (/\ last.op \in {"train", "update_network"}
     /\ net.params.async
     /\ last.op = "train" => last.batches >= 1)
    => /\ last.err = "NotImplementedError"
       /\ last.op = "train" => last.left = last.batches - 1
       /\ EventsOf("update") = {}
       /\ EventsOf("update_history") = {}
       /\ \A k \in 1..Len(net.layers) : layers[net.layers[k]].history = <<>>
       /\ net.t_counter = last.t0
       /\ conns = last.conns0

\* the place of layer l in the network's layer list
PlaceOf(l) == CHOOSE k \in 1..Len(net.layers) : net.layers[k] = l

\* the input energy of unit idx of layer l had layer j still the state it
\* had when the running presentation started
EnergyFromStart(l, idx, j) ==
    PerceptronEnergy(layers, [heap EXCEPT ![layers[j].state] = net.start[j]],
                     conns, l, idx)

\* the value unit k of layer j held when the last update(idx) of the trace
\* computed its energy, told from the trace alone: the value the update of
\* that unit assigned earlier in the running presentation, or, when the unit
\* was not updated in it yet, the value it had when the presentation started
ValueSeen(j, k) ==
    LET ups == {u \in PositionsOf(UpdateEvent(net.cur.p, j, k)) : u < Len(net.trace)}
    IN  IF ups = {} THEN net.start[j][k] ELSE net.wrote[CHOOSE u \in ups : TRUE]

\* bias[idx] plus, over the input connections of layer l, the sum of
\* weight_multiplier * weights[k][idx] * (the value seen of presynaptic unit k)
EnergySeen(l, idx) ==
    RAdd(R(layers[l].bias[idx]),
         RSum([c \in 1..Len(layers[l].inputs) |->
                 LET cn == conns[layers[l].inputs[c]]
                     j == cn.presynaptic_layer
                 IN  RSum([k \in 1..layers[j].n_dims |->
                             RMul(R(cn.weight_multiplier * ValueSeen(j, k)),
                                  cn.weights[k][idx])])]))

\* C17: within one presentation the layers after the first are updated in
\* the order of the layer list, units in index order, and the energy of a
\* unit of layer k is computed from the current state of its presynaptic
\* layers: from the values the updates made earlier in this presentation
\* assigned, and from the values at the start of the presentation for the
\* units not updated in it yet.  A presynaptic layer that stands between the
\* input layer and layer k in the list has had all its units updated in
\* this presentation by then.
C17_GaussSeidelOrder ==
    /\ net.constructed => \A a, b \in EventsOf("update") :
          (a < b /\ net.trace[a].p = net.trace[b].p)
          => \/ PlaceOf(net.trace[a].layer) < PlaceOf(net.trace[b].layer)
             \/ /\ net.trace[a].layer = net.trace[b].layer
                /\ net.trace[a].idx < net.trace[b].idx
    /\ (last.op = "update" /\ pc \in {"un_update", "un_history"})
       => /\ net.trace[Len(net.trace)]
               = UpdateEvent(net.cur.p, last.layer, last.idx)
          /\ last.energy = EnergySeen(last.layer, last.idx)
          /\ net.wrote[Len(net.trace)] = heap[layers[last.layer].state][last.idx]
          /\ \A k \in 1..Len(layers[last.layer].inputs) :
                LET j == conns[layers[last.layer].inputs[k]].presynaptic_layer
                IN  (/\ j \in SeqRange(net.layers)
                     /\ 1 < PlaceOf(j)
                     /\ PlaceOf(j) < PlaceOf(last.layer))
                    => \A u \in 1..layers[j].n_dims :
                          /\ PositionsOf(UpdateEvent(net.cur.p, j, u)) # {}
                          /\ ValueSeen(j, u) = heap[layers[j].state][u]

\* a unit of the third layer was updated with an energy that differs from
\* the one the state of the second layer at the start of the presentation
\* would have given: the second layer changed earlier in the presentation
C17_Witness ==
    /\ last.op = "update"
    /\ pc \in {"un_update", "un_history"}
    /\ Len(net.layers) = 3
    /\ last.layer = 3
    /\ \E k \in 1..Len(layers[3].inputs) :
          conns[layers[3].inputs[k]].presynaptic_layer = 2
    /\ net.start[2] # heap[layers[2].state]
    /\ last.energy # EnergyFromStart(3, last.idx, 2)

====
